---- MODULE Spec2Model ----
(***************************************************************************)
(* Model of the automl package: the column selection transformers of       *)
(* automl/transformer.py with the helpers of automl/common.py, and the     *)
(* dataset profiling of automl/schema/descriptors.py and enums.py.         *)
(*                                                                         *)
(* A transformer instance is the record `est`; `call` records the last     *)
(* call made on it (operation, argument, exception or returned value) and  *)
(* `hist` whether fit was ever called on it and whether a fit ever         *)
(* returned. `dcall` is a call of a descriptor builder: its arguments and, *)
(* once it ran, its result.                                                *)
(* A Python exception is modelled by a tag naming its kind:                *)
(*   WrongInputType  TypeError  of check_X_for_type                        *)
(*   EmptyInput      ValueError of check_X_for_type                        *)
(*   EmptyColumnList ValueError of check_column_length                     *)
(*   MissingColumn   KeyError   (own checks and pandas label lookups)      *)
(*   EmptyResult     ValueError "would result in an empty output" /        *)
(*                   "results in empty dataframe"                          *)
(*   SchemaMismatch  ValueError "Columns were not equal during fit ..."    *)
(*   ShapeMismatch   ValueError "Wrong shape is passed to transform"       *)
(*   NotFitted       NotFittedError of check_is_fitted                     *)
(*   AttributeError  access to an attribute the object does not have       *)
(*   InvalidArray    ValueError of sklearn check_array                     *)
(*   BadTypeFilter   ValueError of pandas select_dtypes (empty or          *)
(*                   overlapping include/exclude)                          *)
(***************************************************************************)
EXTENDS Integers, Sequences, FiniteSets, TLC

VARIABLES est, call, hist, dcall

vars == <<est, call, hist, dcall>>

\* ------------------------------------------------------------------ bounds
MaxCols == 2   \* columns of an input frame
MaxList == 2   \* entries of a `columns` constructor list
MaxRows == 1   \* rows of an input of the IdentityTransformer

\* ------------------------------------------------------------- value sets
Names == {"", "a", "b"}
FrameDtypes == {"int64", "object"}

RECURSIVE SeqsUpTo(_, _)
SeqsUpTo(S, n) == IF n = 0 THEN {<<>>}
                  ELSE SeqsUpTo(S, n - 1) \cup [1..n -> S]

Col(n, d) == [name |-> n, dtype |-> d]

\* An argument X of fit/transform. kind "frame" is a pandas DataFrame, "array"
\* a 2-D numpy array, "list" a nested Python list. cols are the columns in
\* order (name and storage type), rows the number of rows, finite whether
\* every entry is a finite number.
Data(k, r, cs, f) == [kind |-> k, rows |-> r, cols |-> cs, finite |-> f]

NoData == Data("none", 0, <<>>, TRUE)

ColNames(cs) == [i \in 1..Len(cs) |-> cs[i].name]

NameSet(ns) == {ns[i] : i \in 1..Len(ns)}

\* The dataframe transformers read of the rows only whether there are any
RowCounts == {0, 1}

\* Frames whose columns all have one storage type (for the by-name selectors,
\* which never read the types); a label may repeat
NameFrames == {Data("frame", r, [i \in 1..Len(ns) |-> Col(ns[i], "int64")], TRUE) :
                 r \in RowCounts, ns \in SeqsUpTo(Names, MaxCols)}

\* Frames with distinct labels a, b and either storage type per column (for
\* the type selector)
TypedFrames == {Data("frame", r, cs, TRUE) :
                 r \in RowCounts,
                 cs \in {c \in SeqsUpTo({Col(n, d) : n \in {"a", "b"}, d \in FrameDtypes},
                                       MaxCols) :
                           \A i, j \in 1..Len(c) : c[i].name = c[j].name => i = j}}

NonFrames == {Data("list", 1, <<Col("", "float64")>>, TRUE)}

AnonCols(n) == [i \in 1..n |-> Col("", "float64")]

\* Inputs of the IdentityTransformer: only the shape and finiteness are read
ShapeInputs == {d \in {Data(k, r, AnonCols(c), f) :
                         k \in {"frame", "array", "list"}, r \in 0..MaxRows,
                         c \in 0..MaxCols, f \in BOOLEAN} :
                   d.finite \/ (d.rows > 0 /\ Len(d.cols) > 0)}

\* The `columns` constructor argument: one name (a str) or a list of names
StrParam(s) == [kind |-> "str", s |-> s, l |-> <<>>]
ListParam(l) == [kind |-> "list", s |-> "", l |-> l]
ColumnParams == {StrParam(s) : s \in Names} \cup
                {ListParam(l) : l \in SeqsUpTo(Names, MaxList)}

\* Python truthiness of a str or list
Truthy(p) == IF p.kind = "str" THEN p.s # "" ELSE Len(p.l) > 0

\* ----------------------------------------------------------- common.py
as_list(val) == IF val.kind = "str" THEN <<val.s>> ELSE val.l

check_X_for_type(X) ==
    IF X.kind # "frame" THEN "WrongInputType"
    ELSE IF X.rows = 0 \/ Len(X.cols) = 0 THEN "EmptyInput"
    ELSE "ok"

check_column_length(columns) ==
    IF Len(columns) = 0 THEN "EmptyColumnList" ELSE "ok"

\* ------------------------------------------------ pandas operations used
\* DataFrame.drop(columns=names): every column carrying one of the labels goes
DropCols(cs, names) == SelectSeq(cs, LAMBDA c : c.name \notin NameSet(names))

\* DataFrame[list]: for each requested label in order, every column carrying it
RECURSIVE PickCols(_, _)
PickCols(cs, names) ==
    IF Len(names) = 0 THEN <<>>
    ELSE SelectSeq(cs, LAMBDA c : c.name = Head(names)) \o PickCols(cs, Tail(names))

\* set(names).difference(X.columns)
NonExistent(names, X) == NameSet(names) \ NameSet(ColNames(X.cols))

\* DataFrame.select_dtypes(include, exclude); None counts as no type
SelectDtypesError(include, exclude) ==
    (include = {} /\ exclude = {}) \/ (include \cap exclude # {})

SelectDtypes(cs, include, exclude) ==
    SelectSeq(cs, LAMBDA c : /\ (include = {} \/ c.dtype \in include)
                             /\ c.dtype \notin exclude)

\* ------------------------------------------------------------ instances
NewEst(cls, columns, include, exclude, checkX) ==
    [cls |-> cls, columns |-> columns, include |-> include, exclude |-> exclude,
     check_X |-> checkX,
     has_columns_ |-> FALSE, columns_ |-> <<>>,
     has_feature_names_ |-> FALSE, feature_names_ |-> <<>>,
     has_X_dtypes_ |-> FALSE, X_dtypes_ |-> <<>>,
     has_n_ |-> FALSE, n_samples_ |-> 0, n_features_in_ |-> 0]

\* The result of a call: the instance afterwards, the exception raised ("ok"
\* when none) and the value returned
Raise(self, e) == [est |-> self, err |-> e, out |-> NoData]
Return(self, v) == [est |-> self, err |-> "ok", out |-> v]

\* ------------------------------------------- transformer.py ColumnDropper
ColumnDropper_check_column_names(self, X) ==
    IF NonExistent(self.columns_, X) # {} THEN "MissingColumn" ELSE "ok"

ColumnDropper_check_column_length(self) ==
    IF Len(self.feature_names_) = 0 THEN "EmptyResult" ELSE "ok"

\* fit with the empty-result check made before the column-name check
ColumnDropper_fit_LengthFirst(self, X) ==
    LET s1 == [self EXCEPT !.has_columns_ = TRUE, !.columns_ = as_list(self.columns)]
        s2 == [s1 EXCEPT !.has_feature_names_ = TRUE,
                         !.feature_names_ = ColNames(DropCols(X.cols, s1.columns_))]
    IN  IF check_X_for_type(X) # "ok" THEN Raise(s1, check_X_for_type(X))
        ELSE IF ColumnDropper_check_column_length(s2) # "ok"
             THEN Raise(s2, ColumnDropper_check_column_length(s2))
        ELSE IF ColumnDropper_check_column_names(s1, X) # "ok"
             THEN Raise(s1, ColumnDropper_check_column_names(s1, X))
        ELSE Return(s2, NoData)

ColumnDropper_fit(self, X) ==
    LET s1 == [self EXCEPT !.has_columns_ = TRUE, !.columns_ = as_list(self.columns)]
        s2 == [s1 EXCEPT !.has_feature_names_ = TRUE,
                         !.feature_names_ = ColNames(DropCols(X.cols, s1.columns_))]
    IN  IF check_X_for_type(X) # "ok" THEN Raise(s1, check_X_for_type(X))
        ELSE IF ColumnDropper_check_column_names(s1, X) # "ok"
             THEN Raise(s1, ColumnDropper_check_column_names(s1, X))
        ELSE IF ColumnDropper_check_column_length(s2) # "ok"
             THEN Raise(s2, ColumnDropper_check_column_length(s2))
        ELSE Return(s2, NoData)

ColumnDropper_transform(self, X) ==
    IF ~self.has_feature_names_ THEN Raise(self, "NotFitted")
    ELSE IF check_X_for_type(X) # "ok" THEN Raise(self, check_X_for_type(X))
    ELSE IF Len(self.columns_) > 0
         THEN IF NonExistent(self.columns_, X) # {} THEN Raise(self, "MissingColumn")
              ELSE Return(self, [X EXCEPT !.cols = DropCols(X.cols, self.columns_)])
    ELSE Return(self, X)

\* -------------------------------------- transformer.py PandasTypeSelector
PandasTypeSelector_fit(self, X) ==
    LET s1 == [self EXCEPT !.has_X_dtypes_ = TRUE, !.X_dtypes_ = X.cols]
        s2 == [s1 EXCEPT !.has_feature_names_ = TRUE,
                         !.feature_names_ =
                             ColNames(SelectDtypes(X.cols, self.include, self.exclude))]
    IN  IF check_X_for_type(X) # "ok" THEN Raise(self, check_X_for_type(X))
        ELSE IF SelectDtypesError(self.include, self.exclude) THEN Raise(s1, "BadTypeFilter")
        ELSE IF Len(s2.feature_names_) = 0 THEN Raise(s2, "EmptyResult")
        ELSE Return(s2, NoData)

\* transform comparing the storage types of the selected columns only
PandasTypeSelector_transform_SelectedOnly(self, X) ==
    IF ~(self.has_X_dtypes_ /\ self.has_feature_names_) THEN Raise(self, "NotFitted")
    ELSE IF X.kind # "frame" THEN Raise(self, "AttributeError")
    ELSE IF SelectDtypes(self.X_dtypes_, self.include, self.exclude)
              # SelectDtypes(X.cols, self.include, self.exclude)
         THEN Raise(self, "SchemaMismatch")
    ELSE IF check_X_for_type(X) # "ok" THEN Raise(self, check_X_for_type(X))
    ELSE IF SelectDtypesError(self.include, self.exclude) THEN Raise(self, "BadTypeFilter")
    ELSE Return(self, [X EXCEPT !.cols = SelectDtypes(X.cols, self.include, self.exclude)])

PandasTypeSelector_transform(self, X) ==
    IF ~(self.has_X_dtypes_ /\ self.has_feature_names_) THEN Raise(self, "NotFitted")
    ELSE IF X.kind # "frame" THEN Raise(self, "AttributeError")
    ELSE IF self.X_dtypes_ # X.cols THEN Raise(self, "SchemaMismatch")
    ELSE IF check_X_for_type(X) # "ok" THEN Raise(self, check_X_for_type(X))
    ELSE IF SelectDtypesError(self.include, self.exclude) THEN Raise(self, "BadTypeFilter")
    ELSE Return(self, [X EXCEPT !.cols = SelectDtypes(X.cols, self.include, self.exclude)])

\* ------------------------------------------ transformer.py ColumnSelector
ColumnSelector_check_column_names(self, X) ==
    IF NonExistent(self.columns_, X) # {} THEN "MissingColumn" ELSE "ok"

ColumnSelector_fit(self, X) ==
    LET s1 == [self EXCEPT !.has_columns_ = TRUE, !.columns_ = as_list(self.columns)]
    IN  IF check_column_length(s1.columns_) # "ok"
        THEN Raise(s1, check_column_length(s1.columns_))
        ELSE IF check_X_for_type(X) # "ok" THEN Raise(s1, check_X_for_type(X))
        ELSE IF ColumnSelector_check_column_names(s1, X) # "ok"
             THEN Raise(s1, ColumnSelector_check_column_names(s1, X))
        ELSE Return(s1, NoData)

ColumnSelector_transform(self, X) ==
    IF check_X_for_type(X) # "ok" THEN Raise(self, check_X_for_type(X))
    ELSE IF Truthy(self.columns)
         THEN IF ~self.has_columns_ THEN Raise(self, "AttributeError")
              ELSE IF NonExistent(self.columns_, X) # {} THEN Raise(self, "MissingColumn")
              ELSE Return(self, [X EXCEPT !.cols = PickCols(X.cols, self.columns_)])
    ELSE Return(self, X)

\* ------------------------------------- transformer.py IdentityTransformer
\* sklearn check_array(X, copy=True): a finite numeric 2-D array copy of X with
\* at least one row and one column, or a ValueError
check_array_error(X) == ~X.finite \/ X.rows = 0 \/ Len(X.cols) = 0

check_array(X) == Data("array", X.rows, AnonCols(Len(X.cols)), TRUE)

\* X.shape exists on frames and arrays, not on lists
HasShape(X) == X.kind \in {"frame", "array"}

IdentityTransformer_fit(self, X) ==
    LET X1 == IF self.check_X THEN check_array(X) ELSE X
    IN  IF self.check_X /\ check_array_error(X) THEN Raise(self, "InvalidArray")
        ELSE IF ~HasShape(X1) THEN Raise(self, "AttributeError")
        ELSE Return([self EXCEPT !.has_n_ = TRUE, !.n_samples_ = X1.rows,
                                 !.n_features_in_ = Len(X1.cols)], NoData)

\* transform that also compares the row count with the recorded one
IdentityTransformer_transform_RowsToo(self, X) ==
    LET X1 == IF self.check_X THEN check_array(X) ELSE X
    IN  IF self.check_X /\ check_array_error(X) THEN Raise(self, "InvalidArray")
        ELSE IF ~self.has_n_ THEN Raise(self, "NotFitted")
        ELSE IF ~HasShape(X1) THEN Raise(self, "AttributeError")
        ELSE IF Len(X1.cols) # self.n_features_in_ \/ X1.rows # self.n_samples_
             THEN Raise(self, "ShapeMismatch")
        ELSE Return(self, X1)

IdentityTransformer_transform(self, X) ==
    LET X1 == IF self.check_X THEN check_array(X) ELSE X
    IN  IF self.check_X /\ check_array_error(X) THEN Raise(self, "InvalidArray")
        ELSE IF ~self.has_n_ THEN Raise(self, "NotFitted")
        ELSE IF ~HasShape(X1) THEN Raise(self, "AttributeError")
        ELSE IF Len(X1.cols) # self.n_features_in_ THEN Raise(self, "ShapeMismatch")
        ELSE Return(self, X1)

\* ------------------------------------------------------ schema/enums.py
\* Storage types of a dataset column (numpy / pandas dtypes)
StorageTypes == {"int64", "float64", "bool", "object", "category", "datetime64",
                 "timedelta64"}

\* Dtypes.from_nptype: the Dtypes member, or "Unsupported" for its ValueError.
\* numpy's timedelta64 is a subclass of np.signedinteger, so
\* np.issubdtype(timedelta64, np.integer) holds.
Dtypes_from_nptype(dtype) ==
    IF dtype = "category" THEN "CATEGORICAL"
    ELSE IF dtype \in {"int64", "timedelta64"} THEN "INTERGER"
    ELSE IF dtype = "float64" THEN "FLOAT"
    ELSE IF dtype = "bool" THEN "BOOLEAN"
    ELSE IF dtype = "datetime64" THEN "DATE"
    ELSE IF dtype = "object" THEN "CATEGORICAL"
    ELSE "Unsupported"

ColumnTypeMembers == {"FEATURES", "TARGET", "INDEX", "UNIQUEID"}
FeatureTypeMembers == {"Ordinal", "Nominal", "Continuous", "constant"}

\* ------------------------------------------------ schema/descriptors.py
\* A dataset column: its label, storage type, number of missing entries and
\* number of distinct non-missing values. Object columns hold strings,
\* categorical columns have string categories.
DCol(n, t, nulls, nuniq) == [name |-> n, stype |-> t, nulls |-> nulls, nuniq |-> nuniq]

\* pandas.api.types predicates on a column
is_numeric_dtype(c) == c.stype \in {"int64", "float64", "bool"}
is_string_dtype(c) == (c.stype = "object" /\ c.nulls = 0) \/ c.stype = "category"
is_bool_dtype(c) == c.stype = "bool"
is_categorical_dtype(c) == c.stype = "category"
is_datetime64_any_dtype(c) == c.stype = "datetime64"

\* Members of Dtypes and ImputationScheme (enums.py); "None" is Python's None
DtypesMembers == {"INTERGER", "FLOAT", "BOOLEAN", "CATEGORICAL", "DATE"}
ImputationSchemeMembers == {"MEAN", "MEDIAN", "MODE", "VALUE"}
SchemeArgs == ImputationSchemeMembers \cup {"None"}

\* The runtime type of the object passed as imputation_value
ValueTypes == {"NoneType", "int", "float", "str", "bool"}

\* The field imputation_value: Optional[Union[float, int, str]]. The argument
\* is validated against the annotation before the model validator runs: None,
\* a float, an int and a str are kept; a bool is none of the member types and
\* is converted to the number 1 or 0, so the field never holds a bool.
Field_imputation_value(t) == IF t = "bool" THEN "float" ELSE t

\* isinstance(imp_value, (int, float)): bool is a subclass of int
IsInstanceIntFloat(t) == t \in {"int", "float", "bool"}

\* The validator without the MODE check of the numeric branch
ColumnDescriptor_imputation_scheme_ModeAllowed(dtype, imp_scheme, imp_value) ==
    IF dtype \in {"INTERGER", "FLOAT"}
    THEN IF imp_scheme = "VALUE" /\ ~IsInstanceIntFloat(imp_value)
         THEN "InvalidImputationConfig" ELSE "ok"
    ELSE IF dtype = "CATEGORICAL"
    THEN IF imp_scheme \in {"MEAN", "MEDIAN"} THEN "InvalidImputationConfig"
         ELSE IF imp_scheme = "VALUE" /\ imp_value # "str"
              THEN "InvalidImputationConfig" ELSE "ok"
    ELSE IF dtype \in {"BOOLEAN", "DATE"}
    THEN IF imp_scheme \in {"MEAN", "MEDIAN"} THEN "InvalidImputationConfig"
         ELSE IF imp_scheme = "VALUE" /\ imp_value # "bool"
              THEN "InvalidImputationConfig" ELSE "ok"
    ELSE "ok"

\* The model validator ColumnDescriptor.imputation_scheme (mode "after": it
\* reads the validated fields). Its ValueError is InvalidImputationConfig.
ColumnDescriptor_imputation_scheme(dtype, imp_scheme, imp_value) ==
    IF dtype \in {"INTERGER", "FLOAT"}
    THEN IF imp_scheme = "MODE" THEN "InvalidImputationConfig"
         ELSE IF imp_scheme = "VALUE" /\ ~IsInstanceIntFloat(imp_value)
              THEN "InvalidImputationConfig" ELSE "ok"
    ELSE IF dtype = "CATEGORICAL"
    THEN IF imp_scheme \in {"MEAN", "MEDIAN"} THEN "InvalidImputationConfig"
         ELSE IF imp_scheme = "VALUE" /\ imp_value # "str"
              THEN "InvalidImputationConfig" ELSE "ok"
    ELSE IF dtype \in {"BOOLEAN", "DATE"}
    THEN IF imp_scheme \in {"MEAN", "MEDIAN"} THEN "InvalidImputationConfig"
         ELSE IF imp_scheme = "VALUE" /\ imp_value # "bool"
              THEN "InvalidImputationConfig" ELSE "ok"
    ELSE "ok"

\* ColumnDescriptor(dtype=..., imputation_scheme=..., imputation_value=...),
\* the other fields being valid: the fields are validated, then the model
\* validator runs on them. held is the type of the imputation_value the
\* constructed descriptor holds.
ColumnDescriptor_new(dtype, imp_scheme, imp_value) ==
    LET held == Field_imputation_value(imp_value)
        err == ColumnDescriptor_imputation_scheme(dtype, imp_scheme, held)
    IN  [err |-> err,
         dtype |-> dtype,
         imputation_scheme |-> IF err = "ok" THEN imp_scheme ELSE "None",
         imputation_value |-> IF err = "ok" THEN held ELSE "NoneType"]

NoDesc == [name |-> "", col_type |-> "", dtype |-> "", feature_type |-> "",
           count |-> 0, has_mean |-> FALSE, has_median |-> FALSE, has_mode |-> FALSE,
           null_count |-> 0, unique_valus |-> 0]

DRaise(e) == [err |-> e, desc |-> NoDesc]

\* The columns dataset[colname] selects
Selected(ds, colname) == SelectSeq(ds.cols, LAMBDA c : c.name = colname)

\* ColumnDescriptor.build_from_dataset. Errors: MissingColumn (KeyError of
\* dataset[colname] for a label the dataset lacks), NotScalar (the label selects
\* several columns, so .count().item() has no single value), AttributeError
\* (.mean().item() of a numeric column without values: its mean is the plain
\* float nan, which has no item; and FeatureType has no member TARGET),
\* EmptyMode (mode()[0] of a string-like column without values),
\* UnsupportedDtype, InvalidTarget.
ColumnDescriptor_build_from_dataset(ds, colname, target_columns) ==
    LET sel == Selected(ds, colname)
        c == sel[1]
        count == ds.rows - c.nulls
        numeric == is_numeric_dtype(c)
        stringy == ~numeric /\ (is_string_dtype(c) \/ is_bool_dtype(c))
        dately == ~numeric /\ ~stringy /\ is_datetime64_any_dtype(c)
        dtypes == IF stringy /\ is_categorical_dtype(c) THEN "CATEGORICAL"
                  ELSE Dtypes_from_nptype(c.stype)
        feature_type == IF numeric THEN "Continuous"
                        ELSE IF stringy THEN "Ordinal" ELSE "Nominal"
        column_type == IF colname \in target_columns THEN "TARGET" ELSE "FEATURES"
    IN  IF Len(sel) = 0 THEN DRaise("MissingColumn")
        ELSE IF Len(sel) # 1 THEN DRaise("NotScalar")
        ELSE IF numeric /\ count = 0 THEN DRaise("AttributeError")
        ELSE IF stringy /\ count = 0 THEN DRaise("EmptyMode")
        ELSE IF ~numeric /\ ~stringy /\ ~dately THEN DRaise("UnsupportedDtype")
        ELSE IF dtypes = "Unsupported" THEN DRaise("UnsupportedDtype")
        ELSE IF c.nuniq = 1 /\ "TARGET" \notin FeatureTypeMembers THEN DRaise("AttributeError")
        ELSE IF c.nuniq = 1 /\ column_type = "TARGET" THEN DRaise("InvalidTarget")
        ELSE IF ColumnDescriptor_new(dtypes, "None", "NoneType").err # "ok"
             THEN DRaise(ColumnDescriptor_new(dtypes, "None", "NoneType").err)
        ELSE [err |-> "ok",
              desc |-> [name |-> colname, col_type |-> column_type, dtype |-> dtypes,
                        feature_type |-> IF c.nuniq = 1 THEN "constant" ELSE feature_type,
                        count |-> count,
                        has_mean |-> numeric, has_median |-> numeric,
                        has_mode |-> numeric \/ stringy,
                        null_count |-> c.nulls, unique_valus |-> c.nuniq]]

\* dataset.columns[dataset.columns.duplicated()]: the labels at the positions
\* where a label repeats an earlier one
DuplicatedLabels(cs) ==
    LET idx == SelectSeq([i \in 1..Len(cs) |-> i],
                         LAMBDA i : \E j \in 1..(i - 1) : cs[j].name = cs[i].name)
    IN  [k \in 1..Len(idx) |-> cs[idx[k]].name]

\* The loop collecting each descriptor in front of the earlier ones
RECURSIVE BuildColumns_Prepend(_, _, _)
BuildColumns_Prepend(ds, target_columns, i) ==
    IF i > Len(ds.cols) THEN [err |-> "ok", infos |-> <<>>]
    ELSE LET r == ColumnDescriptor_build_from_dataset(ds, ds.cols[i].name, target_columns)
             rest == BuildColumns_Prepend(ds, target_columns, i + 1)
         IN  IF r.err # "ok" THEN [err |-> r.err, infos |-> <<>>]
             ELSE IF rest.err # "ok" THEN rest
             ELSE [err |-> "ok", infos |-> rest.infos \o <<r.desc>>]

\* The loop of DatasetDescriptor.build_from_dataset over the columns from
\* position i on: the descriptors collected, or the first error
RECURSIVE BuildColumns(_, _, _)
BuildColumns(ds, target_columns, i) ==
    IF i > Len(ds.cols) THEN [err |-> "ok", infos |-> <<>>]
    ELSE LET r == ColumnDescriptor_build_from_dataset(ds, ds.cols[i].name, target_columns)
             rest == BuildColumns(ds, target_columns, i + 1)
         IN  IF r.err # "ok" THEN [err |-> r.err, infos |-> <<>>]
             ELSE IF rest.err # "ok" THEN rest
             ELSE [err |-> "ok", infos |-> <<r.desc>> \o rest.infos]

\* dataset.duplicated() on a dataset without columns is an empty boolean
\* Series; indexing a dataset that has rows with it raises IndexingError
DuplicatedUnalignable(ds) == Len(ds.cols) = 0 /\ ds.rows > 0

\* list(dataset[dataset.duplicated()].index) for a dataset of at most two rows
\* (index 0, 1): the second row repeats the first when every column holds the
\* same value, or a missing entry, in both
DuplicatedRows(ds) ==
    IF /\ ds.rows = 2
       /\ \A i \in 1..Len(ds.cols) :
             \/ ds.cols[i].nulls = 0 /\ ds.cols[i].nuniq = 1
             \/ ds.cols[i].nulls = 2
    THEN <<1>> ELSE <<>>

DDRaise(e) == [err |-> e, row_count |-> 0, cloumns_info |-> <<>>,
               duplicate_rows |-> <<>>, duplicate_columns |-> <<>>]

\* DatasetDescriptor.build_from_dataset
DatasetDescriptor_build_from_dataset(ds, target_columns) ==
    LET built == BuildColumns(ds, target_columns, 1)
    IN  IF DuplicatedUnalignable(ds) THEN DDRaise("IndexingError")
        ELSE IF built.err # "ok" THEN DDRaise(built.err)
        ELSE [err |-> "ok", row_count |-> ds.rows, cloumns_info |-> built.infos,
              duplicate_rows |-> DuplicatedRows(ds),
              duplicate_columns |-> DuplicatedLabels(ds.cols)]

\* Datasets profiled: two rows; per column a storage type with how many
\* entries are missing and how many distinct values there are. An integer or
\* boolean column has no missing entry.
DNames == {"x", "y"}
DRowCounts == {2}

DProfiles == {<<"int64", 0, 1>>, <<"int64", 0, 2>>,
              <<"float64", 0, 2>>, <<"float64", 1, 1>>, <<"float64", 2, 0>>,
              <<"bool", 0, 2>>,
              <<"object", 0, 1>>, <<"object", 0, 2>>, <<"object", 1, 1>>,
              <<"category", 0, 2>>,
              <<"datetime64", 0, 2>>,
              <<"timedelta64", 0, 2>>}

DColumns == {DCol(n, p[1], p[2], p[3]) : n \in DNames, p \in DProfiles}

Datasets == {[rows |-> r, cols |-> cs] : r \in DRowCounts, cs \in SeqsUpTo(DColumns, MaxCols)}

\* ------------------------------------------------------- the state machine
Classes == {"ColumnDropper", "PandasTypeSelector", "ColumnSelector", "IdentityTransformer"}

\* The arguments each class is exercised with
InputsOf(cls) ==
    CASE cls = "ColumnDropper" -> NameFrames \cup NonFrames
      [] cls = "ColumnSelector" -> NameFrames \cup NonFrames
      [] cls = "PandasTypeSelector" -> TypedFrames \cup NonFrames
      [] cls = "IdentityTransformer" -> ShapeInputs

fit(self, X) ==
    CASE self.cls = "ColumnDropper" -> ColumnDropper_fit(self, X)
      [] self.cls = "ColumnSelector" -> ColumnSelector_fit(self, X)
      [] self.cls = "PandasTypeSelector" -> PandasTypeSelector_fit(self, X)
      [] self.cls = "IdentityTransformer" -> IdentityTransformer_fit(self, X)

transform(self, X) ==
    CASE self.cls = "ColumnDropper" -> ColumnDropper_transform(self, X)
      [] self.cls = "ColumnSelector" -> ColumnSelector_transform(self, X)
      [] self.cls = "PandasTypeSelector" -> PandasTypeSelector_transform(self, X)
      [] self.cls = "IdentityTransformer" -> IdentityTransformer_transform(self, X)

NewInstances ==
    {NewEst("ColumnDropper", c, {}, {}, FALSE) : c \in ColumnParams} \cup
    {NewEst("ColumnSelector", c, {}, {}, FALSE) : c \in ColumnParams} \cup
    {NewEst("PandasTypeSelector", ListParam(<<>>), i, e, FALSE) :
        i \in SUBSET FrameDtypes, e \in SUBSET FrameDtypes} \cup
    {NewEst("IdentityTransformer", ListParam(<<>>), {}, {}, b) : b \in BOOLEAN}

\* call: the last call on the instance, with the instance as it was before it
Call(op, X, r, before) == [op |-> op, X |-> X, err |-> r.err, out |-> r.out, pre |-> before]

NoDCall == [op |-> "none"]

\* dcall once a builder ran: op "column" is
\* ColumnDescriptor.build_from_dataset(ds, colname, targets) with result col,
\* op "dataset" is DatasetDescriptor.build_from_dataset(ds, targets) with
\* result res
DCall(op, ds, colname, targets, col, res) ==
    [op |-> op, ds |-> ds, colname |-> colname, targets |-> targets, col |-> col, res |-> res]

Init == /\ est \in NewInstances
        /\ call = Call("init", NoData, Return(est, NoData), est)
        /\ hist = [fit_called |-> FALSE, fit_returned |-> FALSE]
        /\ dcall = NoDCall

Fit == \E X \in InputsOf(est.cls) :
          /\ est' = fit(est, X).est
          /\ call' = Call("fit", X, fit(est, X), est)
          /\ hist' = [fit_called |-> TRUE,
                      fit_returned |-> hist.fit_returned \/ fit(est, X).err = "ok"]
          /\ UNCHANGED dcall

Transform == \E X \in InputsOf(est.cls) :
          /\ est' = transform(est, X).est
          /\ call' = Call("transform", X, transform(est, X), est)
          /\ UNCHANGED <<hist, dcall>>

Next == Fit \/ Transform

\* Any instance of any of the four classes, then any calls on it
Spec == Init /\ [][Next]_vars

\* One class at a time
InitColumnDropper == Init /\ est.cls = "ColumnDropper"
InitPandasTypeSelector == Init /\ est.cls = "PandasTypeSelector"
InitColumnSelector == Init /\ est.cls = "ColumnSelector"
InitIdentityTransformer == Init /\ est.cls = "IdentityTransformer"

SpecColumnDropper == InitColumnDropper /\ [][Next]_vars
SpecPandasTypeSelector == InitPandasTypeSelector /\ [][Next]_vars
SpecColumnSelector == InitColumnSelector /\ [][Next]_vars
SpecIdentityTransformer == InitIdentityTransformer /\ [][Next]_vars

\* The descriptor builders keep no state: one call, on any dataset
InitD == /\ est = NewEst("IdentityTransformer", ListParam(<<>>), {}, {}, FALSE)
         /\ call = Call("init", NoData, Return(est, NoData), est)
         /\ hist = [fit_called |-> FALSE, fit_returned |-> FALSE]
         /\ dcall = NoDCall

BuildColumn ==
    /\ dcall.op = "none"
    /\ \E ds \in Datasets, targets \in SUBSET DNames :
         \E colname \in NameSet(ColNames(ds.cols)) :
            dcall' = DCall("column", ds, colname, targets,
                           ColumnDescriptor_build_from_dataset(ds, colname, targets),
                           DatasetDescriptor_build_from_dataset([rows |-> 0, cols |-> <<>>], {}))
    /\ UNCHANGED <<est, call, hist>>

BuildDataset ==
    /\ dcall.op = "none"
    /\ \E ds \in Datasets, targets \in SUBSET DNames :
            dcall' = DCall("dataset", ds, "", targets, DRaise("none"),
                           DatasetDescriptor_build_from_dataset(ds, targets))
    /\ UNCHANGED <<est, call, hist>>

NextD == BuildColumn \/ BuildDataset

SpecD == InitD /\ [][NextD]_vars

\* A direct construction of a ColumnDescriptor, for every dtype, scheme and
\* type of value; dcall records the arguments and the outcome
CCall(dtype, imp_scheme, imp_value) ==
    [op |-> "construct", dtype |-> dtype, imp_scheme |-> imp_scheme,
     imp_value |-> imp_value, made |-> ColumnDescriptor_new(dtype, imp_scheme, imp_value)]

Construct ==
    /\ dcall.op = "none"
    /\ \E dtype \in DtypesMembers, imp_scheme \in SchemeArgs, imp_value \in ValueTypes :
          dcall' = CCall(dtype, imp_scheme, imp_value)
    /\ UNCHANGED <<est, call, hist>>

SpecColumnDescriptor == InitD /\ [][Construct]_vars

\* ================================================================ claims
FrameClasses == {"ColumnDropper", "PandasTypeSelector", "ColumnSelector"}

\* C2: transform on an instance on which fit was never called does not return a
\* dataset: it fails (the claim names the failure NotFitted), for every input
\* and every constructor configuration, for each of the four classes.
C2_TransformBeforeFitFails ==
    (call.op = "transform" /\ ~hist.fit_called) => call.err # "ok"

\* C3: fit is all-or-nothing for the three dataframe transformers: after a fit
\* that raised, the instance behaves as before that call, i.e. transform gives
\* on every input what it gave before (NotFitted if no fit ever succeeded, the
\* outcome fixed by the last successful fit otherwise).
C3_FailedFitChangesNothing ==
    (call.op = "fit" /\ call.err # "ok" /\ est.cls \in FrameClasses) =>
        \A X \in InputsOf(est.cls) :
            /\ transform(est, X).err = transform(call.pre, X).err
            /\ transform(est, X).out = transform(call.pre, X).out

\* C6: on an instance that has been fitted, fit and transform of the dataframe
\* transformers fail with WrongInputType when the input is not a DataFrame and
\* with EmptyInput when it is a DataFrame with zero rows; no other error comes
\* first and nothing is returned.
C6_InputValidatedFirst ==
    (call.op \in {"fit", "transform"} /\ est.cls \in FrameClasses /\ hist.fit_returned) =>
        /\ call.X.kind # "frame" => call.err = "WrongInputType"
        /\ (call.X.kind = "frame" /\ call.X.rows = 0) => call.err = "EmptyInput"

\* ------------------------------------------------------------------- C7
IsSubseqOfLabels(cs, recorded) ==
    \A i \in 1..Len(cs) : \E j \in 1..Len(recorded) : recorded[j] = cs[i]

TypeSelectorFitted(e) == e.has_X_dtypes_ /\ e.has_feature_names_

MatchesFilter(c, e) ==
    (e.include = {} \/ c.dtype \in e.include) /\ c.dtype \notin e.exclude

\* Some column of X has a storage type other than the one recorded under its label
TypeChanged(X, e) ==
    \E i \in 1..Len(X.cols) : \E j \in 1..Len(e.X_dtypes_) :
        /\ e.X_dtypes_[j].name = X.cols[i].name
        /\ e.X_dtypes_[j].dtype # X.cols[i].dtype

\* Every column of X is recorded, with the storage type it has
TypesAsRecorded(X, e) == IsSubseqOfLabels(X.cols, e.X_dtypes_)

TypeSelectorTransformCall ==
    /\ est.cls = "PandasTypeSelector" /\ call.op = "transform"
    /\ TypeSelectorFitted(call.pre) /\ check_X_for_type(call.X) = "ok"

\* C7 as stated: after a fit of a PandasTypeSelector succeeded, transform on a (non-empty) frame
\* X fails with SchemaMismatch when a column of X has a storage type other than
\* the recorded one, and returns the columns of X matching the filter when every
\* column of X has its recorded type.
C7_AsStated ==
    (TypeSelectorTransformCall /\ hist.fit_returned) =>
        /\ TypeChanged(call.X, call.pre) => call.err = "SchemaMismatch"
        /\ TypesAsRecorded(call.X, call.pre) =>
              /\ call.err = "ok"
              /\ call.out.cols = SelectSeq(call.X.cols, LAMBDA c : MatchesFilter(c, call.pre))

\* The labels and storage types of X are, position by position, those recorded
SameSchema(X, e) ==
    /\ Len(X.cols) = Len(e.X_dtypes_)
    /\ \A i \in 1..Len(X.cols) : /\ X.cols[i].name = e.X_dtypes_[i].name
                                 /\ X.cols[i].dtype = e.X_dtypes_[i].dtype

\* C7 amended: on a PandasTypeSelector holding a recorded schema (X_dtypes_ and
\* feature_names_, as after a successful fit), transform on a frame X fails with
\* SchemaMismatch unless X has exactly the recorded labels, in the recorded
\* order, with the recorded storage types (so when a column's type changed, and
\* also when a column is missing, added or moved); when it has, and X is not
\* empty, transform returns exactly the columns of X matching the
\* include/exclude filter, with X's rows (an X without rows fails with
\* EmptyInput).
C7_SchemaMismatch ==
    (est.cls = "PandasTypeSelector" /\ call.op = "transform"
        /\ TypeSelectorFitted(call.pre) /\ call.X.kind = "frame") =>
        /\ ~SameSchema(call.X, call.pre) => call.err = "SchemaMismatch"
        /\ TypeChanged(call.X, call.pre) => call.err = "SchemaMismatch"
        /\ (SameSchema(call.X, call.pre) /\ call.X.rows = 0) => call.err = "EmptyInput"
        /\ (SameSchema(call.X, call.pre) /\ call.X.rows > 0) =>
              /\ call.err = "ok"
              /\ call.out.kind = "frame" /\ call.out.rows = call.X.rows
              /\ call.out.cols = SelectSeq(call.X.cols, LAMBDA c : MatchesFilter(c, call.pre))

\* a selected column changed its type and transform refused the frame
C7_Witness_Mismatch ==
    /\ TypeSelectorTransformCall /\ hist.fit_returned
    /\ \E i \in 1..Len(call.X.cols) :
          /\ MatchesFilter(call.X.cols[i], call.pre)
          /\ call.X.cols[i].name \in NameSet(call.pre.feature_names_)
          /\ TypeChanged(call.X, call.pre)
    /\ call.err = "SchemaMismatch"

\* same schema: some columns kept, some filtered out
C7_Witness ==
    /\ TypeSelectorTransformCall /\ hist.fit_returned
    /\ SameSchema(call.X, call.pre)
    /\ call.err = "ok" /\ Len(call.out.cols) = 1 /\ Len(call.X.cols) = 2

\* ------------------------------------------------------------------- C8
Requested(e) == IF e.columns.kind = "str" THEN <<e.columns.s>> ELSE e.columns.l

ContainsLabels(X, names) == NameSet(names) \subseteq NameSet(ColNames(X.cols))

DistinctLabels(X) ==
    \A i, j \in 1..Len(X.cols) : X.cols[i].name = X.cols[j].name => i = j

ColumnSelectorFitRules ==
    (est.cls = "ColumnSelector" /\ call.op = "fit") =>
        /\ Len(Requested(call.pre)) = 0 => call.err = "EmptyColumnList"
        /\ (Len(Requested(call.pre)) > 0 /\ check_X_for_type(call.X) = "ok") =>
              IF ContainsLabels(call.X, Requested(call.pre))
              THEN call.err = "ok" /\ est.has_columns_ /\ est.columns_ = Requested(call.pre)
              ELSE call.err = "MissingColumn"
        /\ (call.err = "ok" /\ call.pre.columns.kind = "str") =>
              est.columns_ = <<call.pre.columns.s>>

ColumnSelectorTransformCall ==
    /\ est.cls = "ColumnSelector" /\ call.op = "transform" /\ hist.fit_returned
    /\ check_X_for_type(call.X) = "ok"
    /\ ContainsLabels(call.X, call.pre.columns_)

\* C8: ColumnSelector.fit fails with EmptyColumnList when no column is
\* requested and with MissingColumn when a requested column is absent from the
\* (non-empty) frame; a single name is stored as a one-element list; after a
\* successful fit, transform on a non-empty frame containing the stored columns
\* returns a frame with exactly the stored columns in the stored order. The
\* frames transformed are those whose labels are distinct, on which "the
\* stored columns" names one column per stored label.
C8_AsStated ==
    /\ ColumnSelectorFitRules
    /\ (ColumnSelectorTransformCall /\ DistinctLabels(call.X)) =>
          call.err = "ok" /\ ColNames(call.out.cols) = call.pre.columns_

\* ------------------------------------------------------------------- C9
\* The labels of X not in the drop-list, in frame order
Retained(X, droplist) ==
    SelectSeq(ColNames(X.cols), LAMBDA n : \A k \in 1..Len(droplist) : droplist[k] # n)

\* X without the columns whose label is in the drop-list
WithoutDropped(X, droplist) ==
    SelectSeq(X.cols, LAMBDA c : \A k \in 1..Len(droplist) : droplist[k] # c.name)

\* C9: ColumnDropper.fit on a (non-empty) frame fails with MissingColumn when the
\* drop-list names a label the frame lacks, also when the rest of the list
\* covers every column; fails with EmptyResult when the drop-list is exactly
\* the frame's labels; and otherwise stores the drop-list and the retained
\* labels in frame order. A later transform on a (non-empty) frame that has the
\* drop-list labels returns that frame without exactly those columns (on a
\* frame lacking one of them pandas raises MissingColumn).
C9_ColumnDropper ==
    /\ (est.cls = "ColumnDropper" /\ call.op = "fit" /\ check_X_for_type(call.X) = "ok") =>
          IF ~ContainsLabels(call.X, Requested(call.pre)) THEN call.err = "MissingColumn"
          ELSE IF NameSet(Requested(call.pre)) = NameSet(ColNames(call.X.cols))
               THEN call.err = "EmptyResult"
          ELSE /\ call.err = "ok"
               /\ est.has_columns_ /\ est.columns_ = Requested(call.pre)
               /\ est.has_feature_names_
               /\ est.feature_names_ = Retained(call.X, Requested(call.pre))
               /\ Len(est.feature_names_) > 0
    /\ (est.cls = "ColumnDropper" /\ call.op = "transform" /\ hist.fit_returned
          /\ check_X_for_type(call.X) = "ok") =>
          IF ContainsLabels(call.X, call.pre.columns_)
          THEN /\ call.err = "ok"
               /\ call.out.kind = "frame" /\ call.out.rows = call.X.rows
               /\ call.out.cols = WithoutDropped(call.X, call.pre.columns_)
          ELSE call.err = "MissingColumn"

\* the drop-list names an absent label and the rest of it covers the frame
C9_Witness_MissingFirst ==
    /\ est.cls = "ColumnDropper" /\ call.op = "fit" /\ call.err = "MissingColumn"
    /\ NameSet(ColNames(call.X.cols)) \subseteq NameSet(Requested(call.pre))
    /\ check_X_for_type(call.X) = "ok"

C9_Witness_EmptyResult ==
    /\ est.cls = "ColumnDropper" /\ call.op = "fit" /\ call.err = "EmptyResult"
    /\ Len(call.X.cols) = 2

\* a fitted dropper removed one of two columns of another frame
C9_Witness ==
    /\ est.cls = "ColumnDropper" /\ call.op = "transform" /\ hist.fit_returned
    /\ call.err = "ok" /\ call.pre.columns_ = <<"a">>
    /\ call.pre.feature_names_ = <<"b">>
    /\ ColNames(call.X.cols) = <<"", "a">> /\ ColNames(call.out.cols) = <<"">>

\* ------------------------------------------------------------------ C10
IdentityTransformCall ==
    /\ est.cls = "IdentityTransformer" /\ call.op = "transform" /\ hist.fit_returned

\* C10 as stated: after a fit on data with c columns, transform(X) on a
\* non-empty DataFrame or array X returns X unchanged when X has c columns and
\* fails with ShapeMismatch when it has not.
C10_AsStated ==
    (IdentityTransformCall /\ HasShape(call.X)
        /\ call.X.rows > 0 /\ Len(call.X.cols) > 0) =>
        IF Len(call.X.cols) = call.pre.n_features_in_
        THEN call.err = "ok" /\ call.out = call.X
        ELSE call.err = "ShapeMismatch"

\* C10 amended: after a fit on data with c columns, for every X (a DataFrame,
\* an array or a nested list): with check_X disabled, transform(X) fails with
\* AttributeError when X is a list (it has no shape), returns X itself when X
\* is a DataFrame or array with c columns and fails with ShapeMismatch when it
\* has another column count; with check_X enabled X is validated first, an
\* empty or non-finite X fails with the validation error whatever its column
\* count, and a valid X, a list included, is returned as the validated array
\* copy (same shape) when it has c columns, ShapeMismatch otherwise. Only the
\* column count is compared with what fit recorded: the row count is recorded
\* and never checked. Every fit that returns replaces the recorded counts by
\* those of its data; transform changes nothing on the instance.
C10_IdentityTransformer ==
    /\ IdentityTransformCall =>
          IF call.pre.check_X /\ (~call.X.finite \/ call.X.rows = 0 \/ Len(call.X.cols) = 0)
          THEN call.err = "InvalidArray"
          ELSE IF ~call.pre.check_X /\ call.X.kind = "list"
               THEN call.err = "AttributeError"
          ELSE IF Len(call.X.cols) # call.pre.n_features_in_
               THEN call.err = "ShapeMismatch"
          ELSE /\ call.err = "ok"
               /\ call.out.rows = call.X.rows /\ Len(call.out.cols) = Len(call.X.cols)
               /\ IF call.pre.check_X THEN call.out.kind = "array" /\ call.out.finite
                  ELSE call.out = call.X
    /\ (est.cls = "IdentityTransformer" /\ call.op = "fit" /\ call.err = "ok") =>
          /\ est.has_n_
          /\ est.n_samples_ = call.X.rows
          /\ est.n_features_in_ = Len(call.X.cols)
    /\ (est.cls = "IdentityTransformer" /\ call.op = "transform") => est = call.pre

\* X has the fitted column count but another row count, and is returned
C10_Witness ==
    /\ IdentityTransformCall /\ call.err = "ok" /\ call.out = call.X
    /\ Len(call.X.cols) = 2 /\ call.X.rows # call.pre.n_samples_

C10_Witness_ShapeMismatch ==
    /\ IdentityTransformCall /\ call.err = "ShapeMismatch"
    /\ call.pre.n_features_in_ = 2 /\ Len(call.X.cols) = 1

\* with check_X disabled a list with the fitted column count was refused
C10_Witness_ListRefused ==
    /\ IdentityTransformCall /\ ~call.pre.check_X /\ call.X.kind = "list"
    /\ Len(call.X.cols) = call.pre.n_features_in_ /\ call.X.rows > 0
    /\ call.err = "AttributeError"

\* with check_X enabled a list with the fitted column count came back as an array
C10_Witness_ListValidated ==
    /\ IdentityTransformCall /\ call.pre.check_X /\ call.X.kind = "list"
    /\ call.err = "ok" /\ call.out.kind = "array"
    /\ Len(call.out.cols) = Len(call.X.cols) /\ call.out.rows = call.X.rows

\* a second fit on data of another shape replaced the recorded counts
C10_Witness_Refit ==
    /\ est.cls = "IdentityTransformer" /\ call.op = "fit" /\ call.err = "ok"
    /\ call.pre.has_n_ /\ call.pre.n_features_in_ # est.n_features_in_
    /\ call.pre.n_samples_ # est.n_samples_

\* --------------------------------------------------------------- C1, C4, C5
\* The column a column-builder call is about, when its label selects just one
DCallColumn == Selected(dcall.ds, dcall.colname)[1]

Classifiable(c) ==
    is_numeric_dtype(c) \/ is_string_dtype(c) \/ is_bool_dtype(c) \/ is_datetime64_any_dtype(c)

ConstantColumnCall ==
    /\ dcall.op = "column"
    /\ Len(Selected(dcall.ds, dcall.colname)) = 1
    /\ Classifiable(DCallColumn)
    /\ DCallColumn.nuniq = 1

\* C1: for a column with exactly one distinct non-null value,
\* ColumnDescriptor.build_from_dataset returns a descriptor of feature_type
\* constant when the column is not a target, and fails with InvalidTarget when
\* it is.
C1_ConstantColumn ==
    ConstantColumnCall =>
        IF dcall.colname \in dcall.targets
        THEN dcall.col.err = "InvalidTarget"
        ELSE dcall.col.err = "ok" /\ dcall.col.desc.feature_type = "constant"

\* C4: whenever DatasetDescriptor.build_from_dataset(D, T) returns, its
\* column-descriptor sequence has one entry per column of D and the i-th entry
\* carries the name of D's i-th column.
C4_ColumnOrder ==
    (dcall.op = "dataset" /\ dcall.res.err = "ok") =>
        /\ Len(dcall.res.cloumns_info) = Len(dcall.ds.cols)
        /\ \A i \in 1..Len(dcall.ds.cols) :
              dcall.res.cloumns_info[i].name = dcall.ds.cols[i].name

\* a two-column dataset, y before x, was profiled
C4_Witness ==
    /\ dcall.op = "dataset" /\ dcall.res.err = "ok"
    /\ ColNames(dcall.ds.cols) = <<"y", "x">>
    /\ dcall.targets = {"x"}
    /\ dcall.res.cloumns_info[1].name = "y" /\ dcall.res.cloumns_info[2].name = "x"
    /\ dcall.res.cloumns_info[2].col_type = "TARGET"

RepeatsALabel(cs) == \E i, j \in 1..Len(cs) : i < j /\ cs[i].name = cs[j].name

\* C5: for a dataset in which a label repeats an earlier one,
\* DatasetDescriptor.build_from_dataset returns a descriptor whose
\* duplicate_columns holds the repeated labels, one per repeat, and whose
\* column-descriptor sequence has one entry per column.
C5_DuplicateColumns ==
    (dcall.op = "dataset" /\ RepeatsALabel(dcall.ds.cols)
        /\ \A i \in 1..Len(dcall.ds.cols) :
              Classifiable(dcall.ds.cols[i]) /\ dcall.ds.cols[i].nuniq > 1) =>
        /\ dcall.res.err = "ok"
        /\ dcall.res.duplicate_columns = DuplicatedLabels(dcall.ds.cols)
        /\ Len(dcall.res.duplicate_columns) > 0
        /\ Len(dcall.res.cloumns_info) = Len(dcall.ds.cols)

\* ------------------------------------------------------------------ C11
NumericDtypes == {"INTERGER", "FLOAT"}

\* The imputation configuration a constructed descriptor holds is valid for
\* its dtype: the scheme is allowed for the dtype, and with scheme VALUE the
\* value held is a number for a numeric dtype, a string for CATEGORICAL, a
\* boolean for BOOLEAN and DATE
ValidImputation(d) ==
    /\ d.dtype \in NumericDtypes => d.imputation_scheme # "MODE"
    /\ d.dtype \notin NumericDtypes => d.imputation_scheme \notin {"MEAN", "MEDIAN"}
    /\ d.imputation_scheme = "VALUE" =>
          /\ d.dtype \in NumericDtypes => d.imputation_value \in {"int", "float"}
          /\ d.dtype = "CATEGORICAL" => d.imputation_value = "str"
          /\ d.dtype \in {"BOOLEAN", "DATE"} => d.imputation_value = "bool"

\* C11: no ColumnDescriptor with an invalid imputation configuration is
\* constructed: for every dtype, scheme and value, construction fails with
\* InvalidImputationConfig if the dtype is INTEGER or FLOAT and the scheme is
\* MODE, if the dtype is CATEGORICAL, BOOLEAN or DATE and the scheme is MEAN or
\* MEDIAN, or if the scheme is VALUE and the value passed is not a number for a
\* numeric dtype (a Python bool is a number: it is an int), not a string for
\* CATEGORICAL, not a boolean for BOOLEAN; construction with scheme and value
\* both None succeeds for every dtype; and whatever is constructed holds a
\* valid configuration.
C11_ImputationConfig ==
    dcall.op = "construct" =>
        /\ (dcall.dtype \in NumericDtypes /\ dcall.imp_scheme = "MODE") =>
              dcall.made.err = "InvalidImputationConfig"
        /\ (dcall.dtype \in {"CATEGORICAL", "BOOLEAN", "DATE"}
               /\ dcall.imp_scheme \in {"MEAN", "MEDIAN"}) =>
              dcall.made.err = "InvalidImputationConfig"
        /\ (dcall.imp_scheme = "VALUE" /\ dcall.dtype \in NumericDtypes
               /\ dcall.imp_value \notin {"int", "float", "bool"}) =>
              dcall.made.err = "InvalidImputationConfig"
        /\ (dcall.imp_scheme = "VALUE" /\ dcall.dtype = "CATEGORICAL"
               /\ dcall.imp_value # "str") =>
              dcall.made.err = "InvalidImputationConfig"
        /\ (dcall.imp_scheme = "VALUE" /\ dcall.dtype = "BOOLEAN"
               /\ dcall.imp_value # "bool") =>
              dcall.made.err = "InvalidImputationConfig"
        /\ (dcall.imp_scheme = "None" /\ dcall.imp_value = "NoneType") =>
              dcall.made.err = "ok"
        /\ dcall.made.err \in {"ok", "InvalidImputationConfig"}
        /\ dcall.made.err = "ok" =>
              /\ dcall.made.dtype = dcall.dtype
              /\ dcall.made.imputation_scheme = dcall.imp_scheme
              /\ ValidImputation(dcall.made)

\* a string value was refused for an integer column
C11_Witness ==
    /\ dcall.op = "construct"
    /\ dcall.dtype = "INTERGER" /\ dcall.imp_scheme = "VALUE" /\ dcall.imp_value = "str"
    /\ dcall.made.err = "InvalidImputationConfig"

\* MODE was refused for an integer column
C11_Witness_Mode ==
    /\ dcall.op = "construct"
    /\ dcall.dtype = "INTERGER" /\ dcall.imp_scheme = "MODE"
    /\ dcall.made.err = "InvalidImputationConfig"

\* a string value was accepted for a categorical column
C11_Witness_Constructed ==
    /\ dcall.op = "construct"
    /\ dcall.dtype = "CATEGORICAL" /\ dcall.imp_scheme = "VALUE" /\ dcall.imp_value = "str"
    /\ dcall.made.err = "ok" /\ dcall.made.imputation_value = "str"

\* a bool was accepted for a float column and is held as a number
C11_Witness_BoolAsNumber ==
    /\ dcall.op = "construct"
    /\ dcall.dtype = "FLOAT" /\ dcall.imp_scheme = "VALUE" /\ dcall.imp_value = "bool"
    /\ dcall.made.err = "ok" /\ dcall.made.imputation_value = "float"

\* nothing set: constructed
C11_Witness_Unset ==
    /\ dcall.op = "construct"
    /\ dcall.imp_scheme = "None" /\ dcall.imp_value = "NoneType"
    /\ dcall.dtype = "DATE" /\ dcall.made.err = "ok"

\* ------------------------------------------------------------------ C12
\* A column-builder call on a column with at least two distinct values
VariedColumnCall ==
    /\ dcall.op = "column"
    /\ Len(Selected(dcall.ds, dcall.colname)) = 1
    /\ DCallColumn.nuniq > 1

\* C12: ColumnDescriptor.build_from_dataset returns, for a numeric (integer or
\* float) column, a descriptor of feature_type Continuous with mean, median and
\* mode set; for a non-constant string or boolean column, one of feature_type
\* Ordinal with mode set and mean and median unset; for a datetime column, one
\* of feature_type Nominal with none of the three set. Constant columns are
\* left aside for every kind of column here.
C12_FeatureTypes ==
    VariedColumnCall =>
        /\ DCallColumn.stype \in {"int64", "float64"} =>
              /\ dcall.col.err = "ok"
              /\ dcall.col.desc.feature_type = "Continuous"
              /\ dcall.col.desc.has_mean /\ dcall.col.desc.has_median
              /\ dcall.col.desc.has_mode
        /\ (DCallColumn.stype \in {"object", "category", "bool"}
               /\ (is_string_dtype(DCallColumn) \/ is_bool_dtype(DCallColumn))) =>
              /\ dcall.col.err = "ok"
              /\ dcall.col.desc.feature_type = "Ordinal"
              /\ dcall.col.desc.has_mode
              /\ ~dcall.col.desc.has_mean /\ ~dcall.col.desc.has_median
        /\ DCallColumn.stype = "datetime64" =>
              /\ dcall.col.err = "ok"
              /\ dcall.col.desc.feature_type = "Nominal"
              /\ ~dcall.col.desc.has_mean /\ ~dcall.col.desc.has_median
              /\ ~dcall.col.desc.has_mode

====
